---------------------------- MODULE Spec2Model ----------------------------
(***************************************************************************)
(* A model of the taifya formal-language toolkit: grammars                 *)
(* (src/grammar/mod.rs), the NFA built from a right-linear grammar and its *)
(* subset construction (src/fsa/nfa.rs), and the DFA operations            *)
(* (src/fsa/dfa.rs).  Characters are their Unicode code points, Vec<char>  *)
(* is a sequence, a HashMap is a function, and an iteration over a HashMap *)
(* is a choice of one of its orders.                                       *)
(***************************************************************************)
EXTENDS Integers, Sequences, FiniteSets, TLC

VARIABLES
    g,      \* the grammar under construction or cleaning (SpecGrammar)
    m,      \* the automaton the program holds (an Nfa or a Dfa value)
    prev,   \* the automaton before the last operation
    src,    \* the Nfa that the last to_deterministic consumed
    op,     \* the last operation applied
    part,   \* the partition remove_redundant_states ended its loop with
    ret     \* the value the last operation returned to its caller, if it was a query

vars == <<g, m, prev, src, op, part, ret>>

---------------------------------------------------------------------------
(* Characters.                                                             *)

cA == 65
cB == 66
cC == 67
cD == 68
cE == 69
cF == 70
cG == 71
cN == 78
cS == 83
cZ == 90
ca == 97
cb == 98
cc == 99
cd == 100
c0 == 48
c1 == 49
EMPTY_SEQUENCE == 949
cPlus == 43
cMinus == 45
cStar == 42
cSlash == 47

\* ('A'..='Z')
Letters == cA..cZ

---------------------------------------------------------------------------
(* Vec and HashMap helpers.                                                *)

\* Vec::contains
Contains(s, x) == \E i \in 1..Len(s) : s[i] = x

RangeOf(s) == {s[i] : i \in 1..Len(s)}

\* Iterator::position: the first index holding x, 0 for None
Position(s, x) ==
    IF Contains(s, x)
    THEN CHOOSE i \in 1..Len(s) : s[i] = x /\ \A j \in 1..(i - 1) : s[j] # x
    ELSE 0

\* Vec::remove(index)
RemoveAt(s, i) == SubSeq(s, 1, i - 1) \o SubSeq(s, i + 1, Len(s))

\* Iterator::flatten over a sequence of sequences
RECURSIVE Flatten(_)
Flatten(ss) == IF ss = <<>> THEN <<>> ELSE Head(ss) \o Flatten(Tail(ss))

RECURSIVE InsertSorted(_, _)
InsertSorted(s, x) ==
    IF s = <<>> THEN <<x>>
    ELSE IF x <= Head(s) THEN <<x>> \o s
    ELSE <<Head(s)>> \o InsertSorted(Tail(s), x)

\* Vec::sort on chars
RECURSIVE SortChars(_)
SortChars(s) == IF s = <<>> THEN <<>> ELSE InsertSorted(SortChars(Tail(s)), Head(s))

\* Vec::dedup: removes consecutive repeated elements
RECURSIVE Dedup(_)
Dedup(s) ==
    IF Len(s) <= 1 THEN s
    ELSE (IF s[1] = s[2] THEN <<>> ELSE <<s[1]>>) \o Dedup(Tail(s))

EmptyMap == [x \in {} |-> 0]

\* HashMap::insert
Put(f, k, v) == [x \in (DOMAIN f) \cup {k} |-> IF x = k THEN v ELSE f[x]]

\* HashMap::remove of a set of keys
Without(f, ks) == [x \in (DOMAIN f) \ ks |-> f[x]]

\* HashMap::get(..).cloned().unwrap_or(vec![])
GetOrEmpty(f, k) == IF k \in DOMAIN f THEN f[k] ELSE <<>>

\* the orders a HashMap's iterator can visit a set of keys in
RECURSIVE Orders(_)
Orders(S) ==
    IF S = {} THEN {<<>>}
    ELSE UNION {{<<x>> \o o : o \in Orders(S \ {x})} : x \in S}

\* the first letter of A..Z that `used` does not contain; 0 when .expect() aborts
NextLetter(used) ==
    LET free == {c \in Letters : ~Contains(used, c)}
    IN IF free = {} THEN 0 ELSE CHOOSE c \in free : \A e \in free : c <= e

---------------------------------------------------------------------------
(* Automata: Nfa and Dfa values.                                           *)

Nfa(states, inputs, transitions, starting_states, closing_states) ==
    [kind |-> "nfa", states |-> states, inputs |-> inputs, transitions |-> transitions,
     starting_states |-> starting_states, closing_states |-> closing_states,
     state_combo_to_state_map |-> EmptyMap, state_to_state_combo_map |-> EmptyMap]

Dfa(states, inputs, transitions, starting_states, closing_states, c2s, s2c) ==
    [kind |-> "dfa", states |-> states, inputs |-> inputs, transitions |-> transitions,
     starting_states |-> starting_states, closing_states |-> closing_states,
     state_combo_to_state_map |-> c2s, state_to_state_combo_map |-> s2c]

\* the program aborted (a panic: .expect(), .unwrap() or an index out of bounds)
Panicked == [kind |-> "panic"]
\* the program never returns from the loop it is in
Hung == [kind |-> "hang"]
NoAutomaton == [kind |-> "none"]
\* the last operation was no query
NoValue == "none"

---------------------------------------------------------------------------
(* Dfa::has_unreachable_states and Dfa::remove_unreachable_states.         *)

\* vec.iter().for_each: push every state not yet in reachable_states
RECURSIVE Discover(_, _, _)
Discover(vec, reachable, temp) ==
    IF vec = <<>> THEN [reachable |-> reachable, temp |-> temp]
    ELSE LET is_new == ~Contains(reachable, Head(vec))
         IN Discover(Tail(vec),
                     IF is_new THEN Append(reachable, Head(vec)) ELSE reachable,
                     IF is_new THEN Append(temp, Head(vec)) ELSE temp)

\* while let Some(state) = temp_vec.pop()
RECURSIVE ReachLoop(_, _, _)
ReachLoop(d, reachable, temp) ==
    IF temp = <<>> THEN reachable
    ELSE LET state == temp[Len(temp)]
             vec == Flatten([i \in 1..Len(d.inputs) |->
                               GetOrEmpty(d.transitions, <<state, d.inputs[i]>>)])
             Continue(r) == ReachLoop(d, r.reachable, r.temp)
         IN Continue(Discover(vec, reachable, SubSeq(temp, 1, Len(temp) - 1)))

\* the vector reachable_states both functions compute
ReachableStates(d) == ReachLoop(d, d.starting_states, d.starting_states)

HasUnreachableStates(d) == Len(ReachableStates(d)) # Len(d.states)

\* RemoveState that leaves u in closing_states: a fault UnreachableStatesAreDropped detects
RemoveStateKeepingClosing(d, u) ==
    LET transitions_to_remove ==
            {k \in DOMAIN d.transitions : k[1] = u \/ Contains(d.transitions[k], u)}
    IN [d EXCEPT
          !.transitions = Without(d.transitions, transitions_to_remove),
          !.states = RemoveAt(d.states, Position(d.states, u))]

\* the body of unreachable_states.iter().for_each
RemoveState(d, u) ==
    LET transitions_to_remove ==
            {k \in DOMAIN d.transitions : k[1] = u \/ Contains(d.transitions[k], u)}
    IN [d EXCEPT
          !.transitions = Without(d.transitions, transitions_to_remove),
          !.states = RemoveAt(d.states, Position(d.states, u)),
          !.closing_states =
              IF Contains(d.closing_states, u)
              THEN RemoveAt(d.closing_states, Position(d.closing_states, u))
              ELSE d.closing_states]

RECURSIVE RemoveStates(_, _)
RemoveStates(d, us) ==
    IF us = <<>> THEN d ELSE RemoveStates(RemoveState(d, Head(us)), Tail(us))

RemoveUnreachableStatesOf(d) ==
    LET reachable == ReachableStates(d)
        unreachable_states == SelectSeq(d.states, LAMBDA s : ~Contains(reachable, s))
    IN RemoveStates(d, unreachable_states)

---------------------------------------------------------------------------
(* Dfa::remove_redundant_states: the partition.                            *)

\* the two lists the loop starts from: the non-closing states, then the closing ones
InitialList(d) ==
    << SelectSeq(d.states, LAMBDA s : ~Contains(d.closing_states, s)),
       SelectSeq(d.states, LAMBDA s : Contains(d.closing_states, s)) >>

\* state_to_list_idx: the index of the (last) sublist that holds the state
StateToListIdx(list) ==
    [s \in UNION {RangeOf(list[i]) : i \in 1..Len(list)} |->
        CHOOSE i \in 1..Len(list) :
            /\ Contains(list[i], s)
            /\ \A j \in (i + 1)..Len(list) : ~Contains(list[j], s)]

\* the closure given to all() in is_equivalent, on one input: "true", "false" or
\* "panic" (s1_transitions[0] on an empty list, unwrap() of a state without an index)
AgreeOn(d, s1, s2, idx, input) ==
    LET k1 == <<s1, input>>
        k2 == <<s2, input>>
        has1 == k1 \in DOMAIN d.transitions
        has2 == k2 \in DOMAIN d.transitions
    IN IF has1 /\ has2
       THEN LET t1 == d.transitions[k1]
                t2 == d.transitions[k2]
            IN IF t1 = <<>> \/ t2 = <<>> THEN "panic"
               ELSE IF t1[1] = t2[1] THEN "true"
               ELSE IF t1[1] \notin DOMAIN idx \/ t2[1] \notin DOMAIN idx THEN "panic"
               ELSE IF idx[t1[1]] = idx[t2[1]] THEN "true"
               ELSE "false"
       ELSE IF ~has1 /\ ~has2 THEN "true"
       ELSE "false"

\* self.inputs.iter().all(..), input by input
RECURSIVE IsEquivalentFrom(_, _, _, _, _)
IsEquivalentFrom(d, s1, s2, idx, i) ==
    IF i > Len(d.inputs) THEN "true"
    ELSE LET Rest(r) == IF r = "true" THEN IsEquivalentFrom(d, s1, s2, idx, i + 1) ELSE r
         IN Rest(AgreeOn(d, s1, s2, idx, d.inputs[i]))

IsEquivalent(d, s1, s2, idx) == IsEquivalentFrom(d, s1, s2, idx, 1)

\* new_list.iter().position(|sublist| sublist.contains(&s)), 0 for None
SublistOf(new_list, s) ==
    IF \E i \in 1..Len(new_list) : Contains(new_list[i], s)
    THEN CHOOSE i \in 1..Len(new_list) :
            /\ Contains(new_list[i], s)
            /\ \A j \in 1..(i - 1) : ~Contains(new_list[j], s)
    ELSE 0

\* the equivalent branch of the window
JoinPair(new_list, s1, s2) ==
    LET s1_idx == SublistOf(new_list, s1)
        s2_idx == SublistOf(new_list, s2)
        removed == IF s2_idx # 0 THEN RemoveAt(new_list, s2_idx) ELSE new_list
    IN IF s1_idx = 0 THEN [ok |-> TRUE, list |-> Append(new_list, <<s1, s2>>)]
       ELSE IF s1_idx > Len(removed) THEN [ok |-> FALSE, list |-> removed]
       ELSE [ok |-> TRUE, list |-> [removed EXCEPT ![s1_idx] = Append(@, s2)]]

\* the closure given to for_each in the non-equivalent branch, on one sublist that
\* the filter lets through: which of s1 and s2 it pushes, "none", or "panic"
Placed(d, idx, sublist, s, is_s1_used, is_s2_used) ==
    LET Second(e2) == IF e2 = "true" THEN "s2" ELSE IF e2 = "panic" THEN e2 ELSE "none"
        First(e1) ==
            IF e1 = "true" THEN "s1"
            ELSE IF e1 = "panic" THEN e1
            ELSE Second(IF is_s2_used THEN "false"
                        ELSE IsEquivalent(d, sublist[1], s[2], idx))
    IN First(IF is_s1_used THEN "false" ELSE IsEquivalent(d, sublist[1], s[1], idx))

\* the non-equivalent branch: new_list.iter_mut().filter(..).for_each(..)
RECURSIVE PlaceInSublists(_, _, _, _, _, _, _, _)
PlaceInSublists(d, idx, new_list, i, s1, s2, is_s1_used, is_s2_used) ==
    IF i > Len(new_list)
    THEN [ok |-> TRUE, list |-> new_list, is_s1_used |-> is_s1_used, is_s2_used |-> is_s2_used]
    ELSE LET sublist == new_list[i]
             Continue(placed) ==
                 IF placed = "panic" THEN [ok |-> FALSE]
                 ELSE PlaceInSublists(d, idx,
                          IF placed = "s1" THEN [new_list EXCEPT ![i] = Append(@, s1)]
                          ELSE IF placed = "s2" THEN [new_list EXCEPT ![i] = Append(@, s2)]
                          ELSE new_list,
                          i + 1, s1, s2,
                          is_s1_used \/ placed = "s1", is_s2_used \/ placed = "s2")
         IN Continue(IF Contains(sublist, s1) \/ Contains(sublist, s2) THEN "none"
                     ELSE Placed(d, idx, sublist, <<s1, s2>>, is_s1_used, is_s2_used))

\* the non-equivalent branch of the window: the for_each, then the two pushes
SplitPair(d, idx, new_list, s1, s2) ==
    LET With(list, s, is_used) ==
            IF ~is_used /\ SublistOf(list, s) = 0 THEN Append(list, <<s>>) ELSE list
        Pushed(r) ==
            IF ~r.ok THEN [ok |-> FALSE]
            ELSE [ok |-> TRUE,
                  list |-> With(With(r.list, s1, r.is_s1_used), s2, r.is_s2_used)]
    IN Pushed(PlaceInSublists(d, idx, new_list, 1, s1, s2, FALSE, FALSE))

\* one window [s1, s2] of sublist.windows(2)
Window(d, idx, new_list, s1, s2) ==
    LET Branch(e) ==
            IF e = "panic" THEN [ok |-> FALSE]
            ELSE IF e = "true" THEN JoinPair(new_list, s1, s2)
            ELSE SplitPair(d, idx, new_list, s1, s2)
    IN Branch(IsEquivalent(d, s1, s2, idx))

RECURSIVE Windows(_, _, _, _, _)
Windows(d, idx, new_list, sublist, i) ==
    IF i >= Len(sublist) THEN [ok |-> TRUE, list |-> new_list]
    ELSE LET Continue(r) ==
                 IF ~r.ok THEN [ok |-> FALSE] ELSE Windows(d, idx, r.list, sublist, i + 1)
         IN Continue(Window(d, idx, new_list, sublist[i], sublist[i + 1]))

\* for sublist in &list
RECURSIVE Sublists(_, _, _, _, _)
Sublists(d, idx, list, new_list, i) ==
    IF i > Len(list) THEN [ok |-> TRUE, list |-> new_list]
    ELSE LET Continue(r) ==
                 IF ~r.ok THEN [ok |-> FALSE] ELSE Sublists(d, idx, list, r.list, i + 1)
         IN Continue(IF Len(list[i]) = 1
                     THEN [ok |-> TRUE, list |-> Append(new_list, list[i])]
                     ELSE Windows(d, idx, new_list, list[i], 1))

\* one iteration of the loop: new_list computed from list
Refine(d, list) == Sublists(d, StateToListIdx(list), list, <<>>, 1)

\* loop { .. if new_list == list { break } .. }: the list it breaks with, a panic,
\* or no return at all when the lists come back to one already seen
RECURSIVE RefineLoop(_, _, _)
RefineLoop(d, list, seen) ==
    LET Continue(r) ==
            IF ~r.ok THEN [status |-> "panic"]
            ELSE IF r.list = list THEN [status |-> "ok", list |-> list]
            ELSE IF r.list \in seen THEN [status |-> "hang"]
            ELSE RefineLoop(d, r.list, seen \cup {r.list})
    IN Continue(Refine(d, list))

FinalList(d) == RefineLoop(d, InitialList(d), {InitialList(d)})

---------------------------------------------------------------------------
(* Dfa::remove_redundant_states: the names of the sublists and the new     *)
(* transition table.                                                       *)

\* NewStateName that looks at the former states only: a fault BlocksAreNamed detects
NewStateNameOutsideStates(new_states, states) == NextLetter(states)

\* the letter a sublist of more than one state is given; 0 when .expect() aborts
NewStateName(new_states, states) == NextLetter(new_states \o states)

\* the body of list.iter().for_each, on an accumulator
\* [ok, new_states, new_starting_states, new_closing_states, c2s, s2c]
NameSublist(d, acc, sublist) ==
    IF Len(sublist) > 1
    THEN LET Named(new_state) ==
                 IF new_state = 0 THEN [acc EXCEPT !.ok = FALSE]
                 ELSE [acc EXCEPT
                         !.new_states = Append(@, new_state),
                         !.new_closing_states =
                             IF (\E i \in 1..Len(sublist) :
                                    Contains(d.closing_states, sublist[i]))
                                /\ ~Contains(@, new_state)
                             THEN Append(@, new_state) ELSE @,
                         !.new_starting_states =
                             IF (\E i \in 1..Len(sublist) :
                                    Contains(d.starting_states, sublist[i]))
                                /\ ~Contains(@, new_state)
                             THEN Append(@, new_state) ELSE @,
                         !.c2s = Put(@, sublist, new_state),
                         !.s2c = Put(@, new_state, sublist)]
         IN Named(NewStateName(acc.new_states, d.states))
    ELSE [acc EXCEPT
            !.new_states = Append(@, sublist[1]),
            !.new_starting_states =
                IF Contains(d.starting_states, sublist[1]) THEN Append(@, sublist[1]) ELSE @,
            !.new_closing_states =
                IF Contains(d.closing_states, sublist[1]) THEN Append(@, sublist[1]) ELSE @]

RECURSIVE NameSublists(_, _, _, _)
NameSublists(d, acc, list, i) ==
    IF i > Len(list) \/ ~acc.ok THEN acc
    ELSE NameSublists(d, NameSublist(d, acc, list[i]), list, i + 1)

NamedSublists(d, list) ==
    NameSublists(d, [ok |-> TRUE, new_states |-> <<>>, new_starting_states |-> <<>>,
                     new_closing_states |-> <<>>,
                     c2s |-> d.state_combo_to_state_map,
                     s2c |-> d.state_to_state_combo_map], list, 1)

\* state_combo_to_state_map.iter().filter(|(combo, _)| combo.contains(s)).nth(0):
\* the name of the first combo, in the map's iteration order ord, that holds s
RenamedState(c2s, ord, s) ==
    IF \E i \in 1..Len(ord) : Contains(ord[i], s)
    THEN c2s[ord[CHOOSE i \in 1..Len(ord) :
                    /\ Contains(ord[i], s)
                    /\ \A j \in 1..(i - 1) : ~Contains(ord[j], s)]]
    ELSE s

\* the renamings of the states of the table that the orders of the map allow
Renamings(transitions, c2s) ==
    LET named == {k[1] : k \in DOMAIN transitions}
                 \cup {transitions[k][1] : k \in DOMAIN transitions}
    IN {[s \in named |-> RenamedState(c2s, ord, s)] : ord \in Orders(DOMAIN c2s)}

\* the tables over the new keys nks that hold, per key, one of its candidates
RECURSIVE TablesOver(_, _, _)
TablesOver(transitions, ren, nks) ==
    IF nks = {} THEN {EmptyMap}
    ELSE LET nk == CHOOSE x \in nks : TRUE
             candidates == {<<ren[transitions[k][1]]>> :
                               k \in {x \in DOMAIN transitions : <<ren[x[1]], x[2]>> = nk}}
         IN {Put(t, nk, v) : t \in TablesOver(transitions, ren, nks \ {nk}), v \in candidates}

\* the tables table.insert can leave: one entry per new key, holding the value of
\* the entry of self.transitions that the iteration visits last among those that
\* are renamed to this key
NewTables(transitions, c2s) ==
    UNION {TablesOver(transitions, ren, {<<ren[k[1]], k[2]>> : k \in DOMAIN transitions}) :
              ren \in Renamings(transitions, c2s)}

\* every result remove_redundant_states can leave for d, with the list it ended with
RedundantResults(d) ==
    LET Rebuilt(n, list) ==
            IF ~n.ok \/ (\E k \in DOMAIN d.transitions : d.transitions[k] = <<>>)
            THEN {[dfa |-> Panicked, list |-> list]}
            ELSE {[dfa |-> Dfa(n.new_states, d.inputs, t, n.new_starting_states,
                               n.new_closing_states, n.c2s, n.s2c),
                   list |-> list] :
                    t \in NewTables(d.transitions, n.c2s)}
        Merged(f) ==
            IF f.status = "panic" THEN {[dfa |-> Panicked, list |-> <<>>]}
            ELSE IF f.status = "hang" THEN {[dfa |-> Hung, list |-> <<>>]}
            ELSE Rebuilt(NamedSublists(d, f.list), f.list)
    IN IF HasUnreachableStates(d) THEN {[dfa |-> d, list |-> <<>>]}
       ELSE Merged(FinalList(d))

---------------------------------------------------------------------------
(* Dfa::to_non_deterministic.                                              *)

\* RemoveComposite that leaves the name in the destinations: a fault
\* RoundTripPreservesLanguage detects
RemoveCompositeKeepingName(d, state_to_remove) ==
    LET outgoing == {<<state_to_remove, d.inputs[i]>> : i \in 1..Len(d.inputs)}
        kept == Without(d.transitions, outgoing)
    IN IF \E k \in DOMAIN kept : kept[k] = <<>> THEN [d EXCEPT !.kind = "panic"]
       ELSE [d EXCEPT
               !.states = RemoveAt(d.states, Position(d.states, state_to_remove)),
               !.transitions = kept,
               !.closing_states =
                   IF Contains(d.closing_states, state_to_remove)
                   THEN RemoveAt(d.closing_states, Position(d.closing_states, state_to_remove))
                   ELSE d.closing_states]

\* the body of states_to_remove.iter().for_each; ok is FALSE when out_state[0] aborts
RemoveComposite(d, state_to_remove) ==
    LET outgoing == {<<state_to_remove, d.inputs[i]>> : i \in 1..Len(d.inputs)}
        kept == Without(d.transitions, outgoing)
    IN IF \E k \in DOMAIN kept : kept[k] = <<>> THEN [d EXCEPT !.kind = "panic"]
       ELSE [d EXCEPT
               !.states = RemoveAt(d.states, Position(d.states, state_to_remove)),
               !.transitions =
                   [k \in DOMAIN kept |->
                       IF kept[k][1] = state_to_remove
                       THEN d.state_to_state_combo_map[state_to_remove]
                       ELSE kept[k]],
               !.closing_states =
                   IF Contains(d.closing_states, state_to_remove)
                   THEN RemoveAt(d.closing_states, Position(d.closing_states, state_to_remove))
                   ELSE d.closing_states]

RECURSIVE RemoveComposites(_, _)
RemoveComposites(d, ss) ==
    IF ss = <<>> \/ d.kind = "panic" THEN d
    ELSE RemoveComposites(RemoveComposite(d, Head(ss)), Tail(ss))

ToNonDeterministicOf(d) ==
    LET states_to_remove ==
            SelectSeq(d.states, LAMBDA s : s \in DOMAIN d.state_to_state_combo_map)
        r == RemoveComposites(d, states_to_remove)
    IN IF r.kind = "panic" THEN Panicked
       ELSE Nfa(r.states, r.inputs, r.transitions, r.starting_states, r.closing_states)

---------------------------------------------------------------------------
(* Nfa::to_deterministic.  The construction works on a record              *)
(* [ok, states, closing_states, transitions, c2s, s2c, states_to_process]; *)
(* ok is FALSE once .expect("Not enough capital letters") has aborted.     *)

\* the first letter of A..Z that is no state yet; 0 when .expect() aborts
FreshState(states) == NextLetter(states)

\* ComboIsClosing that asks every state of the combo to be closing: a fault
\* CompositeClosingFollowsCombo detects
ComboIsAllClosing(closing_states, combo, new_state) ==
    \A i \in 1..Len(combo) : Contains(closing_states, combo[i])

\* a composite is closing when the list of closing states, as it is at this
\* moment, holds one of its states
ComboIsClosing(closing_states, combo, new_state) ==
    \E i \in 1..Len(closing_states) :
        Contains(combo, closing_states[i]) /\ ~Contains(closing_states, new_state)

\* the name of a combo: the one the map holds, or a new state that is recorded in
\* both maps, in the states, maybe in the closing states, and queued for step 2
NameOfCombo(st, combo) ==
    IF combo \in DOMAIN st.c2s THEN [st |-> st, name |-> st.c2s[combo]]
    ELSE LET new_state == FreshState(st.states)
         IN IF new_state = 0 THEN [st |-> [st EXCEPT !.ok = FALSE], name |-> 0]
            ELSE [st |-> [st EXCEPT
                            !.closing_states =
                                IF ComboIsClosing(st.closing_states, combo, new_state)
                                THEN Append(@, new_state) ELSE @,
                            !.c2s = Put(@, combo, new_state),
                            !.s2c = Put(@, new_state, combo),
                            !.states = Append(@, new_state),
                            !.states_to_process = Append(@, combo)],
                  name |-> new_state]

\* step 1: the entries with more than one destination, visited in the order ord
RECURSIVE CollapseEntries(_, _, _)
CollapseEntries(st, ord, i) ==
    IF i > Len(ord) \/ ~st.ok THEN st
    ELSE LET r == NameOfCombo(st, st.transitions[ord[i]])
         IN IF ~r.st.ok THEN r.st
            ELSE CollapseEntries([r.st EXCEPT !.transitions[ord[i]] = <<r.name>>], ord, i + 1)

\* Expand that leaves the name of a composite in place: a fault
\* DeterministicAcceptsTheSame detects
ExpandKeepingName(s2c, sub_state) == <<sub_state>>

\* state_to_state_combo_map.get(sub_state).cloned().unwrap_or(vec![*sub_state])
Expand(s2c, sub_state) == IF sub_state \in DOMAIN s2c THEN s2c[sub_state] ELSE <<sub_state>>

\* the destinations of a combo on one input, sorted and deduplicated
OutState(st, combo, input) ==
    Dedup(SortChars(Flatten(
        [j \in 1..Len(combo) |->
            LET state == GetOrEmpty(st.transitions, <<combo[j], input>>)
            IN Flatten([k \in 1..Len(state) |-> Expand(st.s2c, state[k])])])))

\* the column of a combo: its non-empty out states, in the order of the inputs
Column(st, inputs, combo) ==
    SelectSeq([i \in 1..Len(inputs) |->
                  [input |-> inputs[i], state |-> OutState(st, combo, inputs[i])]],
              LAMBDA c : Len(c.state) > 0)

\* column.iter_mut().for_each: name the out states of more than one state and
\* insert the transitions of associated_state
RECURSIVE EmitColumn(_, _, _, _)
EmitColumn(st, associated_state, column, i) ==
    IF i > Len(column) \/ ~st.ok THEN st
    ELSE LET c == column[i]
         IN IF Len(c.state) # 1
            THEN LET r == NameOfCombo(st, c.state)
                 IN IF ~r.st.ok THEN r.st
                    ELSE EmitColumn([r.st EXCEPT !.transitions =
                                        Put(@, <<associated_state, c.input>>, <<r.name>>)],
                                    associated_state, column, i + 1)
            ELSE EmitColumn([st EXCEPT !.transitions =
                                Put(@, <<associated_state, c.input>>, c.state)],
                            associated_state, column, i + 1)

\* step 2: while let Some(state) = states_to_process.pop()
RECURSIVE ProcessCombos(_, _)
ProcessCombos(st, inputs) ==
    IF st.states_to_process = <<>> \/ ~st.ok THEN st
    ELSE LET n == Len(st.states_to_process)
             state == st.states_to_process[n]
             popped == [st EXCEPT !.states_to_process = SubSeq(@, 1, n - 1)]
             column == Column(popped, inputs, state)
         IN ProcessCombos(EmitColumn(popped, popped.c2s[state], column, 1), inputs)

\* the entries step 1 rewrites: those its filter and its length test let through
MultiKeys(n) == {k \in DOMAIN n.transitions : Len(n.transitions[k]) > 1}

\* the Dfa to_deterministic returns when step 1 visits the entries in the order ord
ToDeterministicIn(n, ord) ==
    LET st0 == [ok |-> TRUE, states |-> n.states, closing_states |-> n.closing_states,
                transitions |-> n.transitions, c2s |-> EmptyMap, s2c |-> EmptyMap,
                states_to_process |-> <<>>]
        st == ProcessCombos(CollapseEntries(st0, ord, 1), n.inputs)
    IN IF ~st.ok THEN Panicked
       ELSE Dfa(st.states, n.inputs, st.transitions, n.starting_states,
                st.closing_states, st.c2s, st.s2c)

\* every Dfa to_deterministic can return for n
ToDeterministicResults(n) == {ToDeterministicIn(n, ord) : ord \in Orders(MultiKeys(n))}

---------------------------------------------------------------------------
(* Grammars: Grammar::new and Grammar::get_type.                           *)

Rule(input, variants) == [input |-> input, variants |-> variants]

Operations == {cPlus, cMinus, cStar, cSlash}

\* variant.starts_with(&[sym]) for some non-terminal sym
IsLeftAligned(non_terminals, variant) ==
    Len(variant) > 0 /\ Contains(non_terminals, variant[1])

\* variant.ends_with(&[sym]) for some non-terminal sym
IsRightAligned(non_terminals, variant) ==
    Len(variant) > 0 /\ Contains(non_terminals, variant[Len(variant)])

IsTerminated(terminals, variant) == Len(variant) = 1 /\ Contains(terminals, variant[1])

IsEmpty(variant) == Len(variant) = 1 /\ variant[1] = EMPTY_SEQUENCE

\* the closure of the third check on one variant: whether it passes
VariantIsRegular(terminals, non_terminals, variant) ==
    LET is_left_aligned == IsLeftAligned(non_terminals, variant)
        is_right_aligned == IsRightAligned(non_terminals, variant)
    IN IF is_left_aligned # is_right_aligned THEN TRUE
       ELSE IsTerminated(terminals, variant) \/ IsEmpty(variant)

\* regular_type after one more variant: the match overwrites it
RegularTypeAfter(non_terminals, regular_type, variant) ==
    LET is_left_aligned == IsLeftAligned(non_terminals, variant)
        is_right_aligned == IsRightAligned(non_terminals, variant)
    IN IF is_left_aligned /\ ~is_right_aligned THEN "Left"
       ELSE IF ~is_left_aligned /\ is_right_aligned THEN "Right"
       ELSE regular_type

\* the variants of all the rules, in the order the nested all() visits them
AllVariants(rules) == Flatten([i \in 1..Len(rules) |-> rules[i].variants])

\* regular_type when every variant has passed: "None", "Left" or "Right"
RECURSIVE RegularType(_, _, _)
RegularType(non_terminals, regular_type, variants) ==
    IF variants = <<>> THEN regular_type
    ELSE RegularType(non_terminals,
                     RegularTypeAfter(non_terminals, regular_type, Head(variants)),
                     Tail(variants))

\* GetType without its second check, on the length of the heads: a fault
\* TypeFollowsLengths detects
GetTypeIgnoringHeads(terminals, non_terminals, rules) ==
    IF ~(\A i \in 1..Len(rules) : \A j \in 1..Len(rules[i].variants) :
            Len(rules[i].input) <= Len(rules[i].variants[j]))
    THEN "Type0"
    ELSE IF ~(\A i \in 1..Len(rules) : \A j \in 1..Len(rules[i].variants) :
                 VariantIsRegular(terminals, non_terminals, rules[i].variants[j]))
    THEN "ContextFree"
    ELSE LET regular_type == RegularType(non_terminals, "None", AllVariants(rules))
         IN IF regular_type = "None" THEN "panic"
            ELSE IF regular_type = "Left" THEN "RegularLeft" ELSE "RegularRight"

\* Grammar::get_type; "panic" is regular_type.unwrap() on None
GetType(terminals, non_terminals, rules) ==
    IF ~(\A i \in 1..Len(rules) : \A j \in 1..Len(rules[i].variants) :
            Len(rules[i].input) <= Len(rules[i].variants[j]))
    THEN "Type0"
    ELSE IF ~(\A i \in 1..Len(rules) : Len(rules[i].input) = 1)
    THEN "ContextDependent"
    ELSE IF ~(\A i \in 1..Len(rules) : \A j \in 1..Len(rules[i].variants) :
                 VariantIsRegular(terminals, non_terminals, rules[i].variants[j]))
    THEN "ContextFree"
    ELSE LET regular_type == RegularType(non_terminals, "None", AllVariants(rules))
         IN IF regular_type = "None" THEN "panic"
            ELSE IF regular_type = "Left" THEN "RegularLeft" ELSE "RegularRight"

ValidRule(terminals, non_terminals, rule) ==
    /\ \A i \in 1..Len(rule.input) :
          Contains(terminals, rule.input[i]) \/ Contains(non_terminals, rule.input[i])
    /\ \A j \in 1..Len(rule.variants) : \A i \in 1..Len(rule.variants[j]) :
          LET sym == rule.variants[j][i]
          IN \/ Contains(terminals, sym)
             \/ Contains(non_terminals, sym)
             \/ sym = EMPTY_SEQUENCE
             \/ sym \in Operations

\* GrammarNew that looks for the starting symbol before it compares the two
\* alphabets: a fault ErrorsAreReported detects
GrammarNewStartFirst(terminals, non_terminals, starting_non_terminal, rules) ==
    IF ~Contains(non_terminals, starting_non_terminal)
    THEN [kind |-> "error", error |-> "MissingStartingNonTerminalSymbol"]
    ELSE IF \E i \in 1..Len(terminals) : Contains(non_terminals, terminals[i])
    THEN [kind |-> "error", error |-> "OverlappingSymbols"]
    ELSE IF ~(\A i \in 1..Len(rules) : ValidRule(terminals, non_terminals, rules[i]))
    THEN [kind |-> "error", error |-> "InvalidRule"]
    ELSE LET grammar_type == GetType(terminals, non_terminals, rules)
         IN IF grammar_type = "panic" THEN [kind |-> "panic"]
            ELSE [kind |-> "grammar", terminals |-> terminals,
                  non_terminals |-> non_terminals, rules |-> rules,
                  starting_non_terminal |-> starting_non_terminal,
                  grammar_type |-> grammar_type]

\* Grammar::new: a grammar, one of the three errors, or the abort of get_type
GrammarNew(terminals, non_terminals, starting_non_terminal, rules) ==
    IF \E i \in 1..Len(terminals) : Contains(non_terminals, terminals[i])
    THEN [kind |-> "error", error |-> "OverlappingSymbols"]
    ELSE IF ~Contains(non_terminals, starting_non_terminal)
    THEN [kind |-> "error", error |-> "MissingStartingNonTerminalSymbol"]
    ELSE IF ~(\A i \in 1..Len(rules) : ValidRule(terminals, non_terminals, rules[i]))
    THEN [kind |-> "error", error |-> "InvalidRule"]
    ELSE LET grammar_type == GetType(terminals, non_terminals, rules)
         IN IF grammar_type = "panic" THEN [kind |-> "panic"]
            ELSE [kind |-> "grammar", terminals |-> terminals,
                  non_terminals |-> non_terminals, rules |-> rules,
                  starting_non_terminal |-> starting_non_terminal,
                  grammar_type |-> grammar_type]

---------------------------------------------------------------------------
(* Grammar cleaning.                                                       *)

\* a variant made of terminals, of non-terminals of the list, and of the empty sequence
VariantEnds(gr, new_list, variant) ==
    \A i \in 1..Len(variant) :
        \/ Contains(gr.terminals, variant[i])
        \/ Contains(new_list, variant[i])
        \/ variant[i] = EMPTY_SEQUENCE

\* for non_terminal in &self.non_terminals: one pass over the non-terminals
RECURSIVE EndingPass(_, _, _)
EndingPass(gr, new_list, i) ==
    IF i > Len(gr.non_terminals) THEN new_list
    ELSE LET non_terminal == gr.non_terminals[i]
             found == /\ \E r \in 1..Len(gr.rules) :
                            /\ Contains(gr.rules[r].input, non_terminal)
                            /\ \E j \in 1..Len(gr.rules[r].variants) :
                                  VariantEnds(gr, new_list, gr.rules[r].variants[j])
                      /\ ~Contains(new_list, non_terminal)
         IN EndingPass(gr, IF found THEN Append(new_list, non_terminal) ELSE new_list, i + 1)

RECURSIVE EndingLoop(_, _)
EndingLoop(gr, list) ==
    LET new_list == EndingPass(gr, list, 1)
    IN IF new_list = list THEN list ELSE EndingLoop(gr, new_list)

\* GetNonTerminalsWithTerminalStrings that stops after the first pass of the loop:
\* a fault OnlyProductiveRemain detects
NonTerminalsOfOnePass(gr) == EndingPass(gr, <<>>, 1)

\* Grammar::get_non_terminals_with_terminal_strings
GetNonTerminalsWithTerminalStrings(gr) == EndingLoop(gr, <<>>)

\* IsGrammarLanguageExists that asks S for a variant of its own over the
\* terminals: a fault LanguageExistsIffProductive detects
StartEndsAtOnce(gr) ==
    IF gr.grammar_type # "ContextFree" THEN FALSE
    ELSE Contains(EndingPass(gr, <<>>, 1), gr.starting_non_terminal)

\* Grammar::is_grammar_language_exists
IsGrammarLanguageExists(gr) ==
    IF gr.grammar_type # "ContextFree" THEN FALSE
    ELSE Contains(GetNonTerminalsWithTerminalStrings(gr), gr.starting_non_terminal)

\* TerminalVariants without the filter: a fault GrammarIsWellFormed detects
EveryVariant(gr, variants) == variants

\* the variants both cleaning functions keep: terminals and the empty sequence only
TerminalVariants(gr, variants) ==
    SelectSeq(variants, LAMBDA variant :
        \A i \in 1..Len(variant) :
            Contains(gr.terminals, variant[i]) \/ variant[i] = EMPTY_SEQUENCE)

\* the rules both cleaning functions keep: those whose first head symbol is in nts
RECURSIVE KeptRules(_, _, _)
KeptRules(gr, nts, i) ==
    IF i > Len(gr.rules) THEN <<>>
    ELSE LET rule == gr.rules[i]
         IN (IF Contains(nts, rule.input[1])
             THEN <<Rule(<<rule.input[1]>>, TerminalVariants(gr, rule.variants))>>
             ELSE <<>>) \o KeptRules(gr, nts, i + 1)

RemoveNonEndingNonTerminalsOf(gr) ==
    IF gr.grammar_type # "ContextFree" THEN gr
    ELSE LET new_non_terminals == GetNonTerminalsWithTerminalStrings(gr)
         IN [gr EXCEPT !.non_terminals = new_non_terminals,
                       !.rules = KeptRules(gr, new_non_terminals, 1)]

\* variant.iter().for_each: the symbols of one variant, on [nts, ts]
RECURSIVE ReachSymbols(_, _, _)
ReachSymbols(gr, acc, variant) ==
    IF variant = <<>> THEN acc
    ELSE LET ch == Head(variant)
             ts == IF Contains(gr.terminals, ch) /\ ~Contains(acc.ts, ch)
                   THEN Append(acc.ts, ch) ELSE acc.ts
             nts == IF Contains(gr.non_terminals, ch) /\ ~Contains(acc.nts, ch)
                    THEN Append(acc.nts, ch) ELSE acc.nts
         IN ReachSymbols(gr, [nts |-> nts, ts |-> ts], Tail(variant))

\* self.rules.iter().for_each: one pass over the rules
RECURSIVE ReachPass(_, _, _)
ReachPass(gr, acc, i) ==
    IF i > Len(gr.rules) THEN acc
    ELSE IF Contains(acc.nts, gr.rules[i].input[1])
    THEN ReachPass(gr, ReachSymbols(gr, acc, Flatten(gr.rules[i].variants)), i + 1)
    ELSE ReachPass(gr, acc, i + 1)

\* ReachSymbolsLoop that stops after the first pass over the rules: a fault
\* OnlyReachableRemain detects
ReachSymbolsOnePass(gr, acc) == ReachPass(gr, acc, 1)

\* loop { .. if new_non_terminals == non_terminals && new_terminals == terminals .. }
RECURSIVE ReachSymbolsLoop(_, _)
ReachSymbolsLoop(gr, acc) ==
    LET new == ReachPass(gr, acc, 1)
    IN IF new = acc THEN acc ELSE ReachSymbolsLoop(gr, new)

\* Grammar::remove_unreachable_symbols; rule.input[0] aborts on a rule without head
RemoveUnreachableSymbolsOf(gr) ==
    IF \E i \in 1..Len(gr.rules) : gr.rules[i].input = <<>> THEN [kind |-> "panic"]
    ELSE LET r == ReachSymbolsLoop(gr, [nts |-> <<gr.starting_non_terminal>>, ts |-> <<>>])
         IN [gr EXCEPT !.terminals = r.ts,
                       !.non_terminals = r.nts,
                       !.rules = KeptRules(gr, r.nts, 1)]

---------------------------------------------------------------------------
(* Nfa::try_from(Grammar).                                                 *)

\* 'N', or the first capital letter that is not a non-terminal (0: expect aborts)
ClosingNonTerminal(gr) ==
    IF Contains(gr.non_terminals, cN) THEN NextLetter(gr.non_terminals) ELSE cN

\* the first pass on one variant; variants is the clone taken before the pass
NormalizedVariant(gr, closing_non_terminal, rule, variant) ==
    IF Len(variant) # 1 THEN variant
    ELSE IF variant[1] = EMPTY_SEQUENCE /\ rule.input[1] = gr.starting_non_terminal
    THEN variant
    ELSE IF ~(\E j \in 1..Len(rule.variants) :
                 Len(rule.variants[j]) > 1 /\ rule.variants[j][1] = variant[1])
    THEN Append(variant, closing_non_terminal)
    ELSE variant

NormalizedRules(gr, closing_non_terminal) ==
    [i \in 1..Len(gr.rules) |->
        Rule(gr.rules[i].input,
             [j \in 1..Len(gr.rules[i].variants) |->
                 NormalizedVariant(gr, closing_non_terminal, gr.rules[i],
                                   gr.rules[i].variants[j])])]

\* closing_states.push(starting_non_terminal), once per empty variant of its rules
StartClosings(gr) ==
    Flatten([i \in 1..Len(gr.rules) |->
        Flatten([j \in 1..Len(gr.rules[i].variants) |->
            IF /\ Len(gr.rules[i].variants[j]) = 1
               /\ gr.rules[i].variants[j][1] = EMPTY_SEQUENCE
               /\ gr.rules[i].input[1] = gr.starting_non_terminal
            THEN <<gr.starting_non_terminal>> ELSE <<>>])])

\* WithVariant without the sort: a fault NfaOfGrammarIsShaped detects
WithVariantUnsorted(transitions, input, variant) ==
    IF Len(variant) # 1 /\ variant[1] # EMPTY_SEQUENCE
    THEN LET key == <<input[1], variant[1]>>
         IN Put(transitions, key, Append(GetOrEmpty(transitions, key), variant[2]))
    ELSE transitions

\* the second pass on one variant: vec.push(output) and the sort
WithVariant(transitions, input, variant) ==
    IF Len(variant) # 1 /\ variant[1] # EMPTY_SEQUENCE
    THEN LET key == <<input[1], variant[1]>>
             vec == Append(GetOrEmpty(transitions, key), variant[2])
         IN Put(transitions, key, IF Len(vec) # 1 THEN SortChars(vec) ELSE vec)
    ELSE transitions

RECURSIVE WithVariants(_, _, _)
WithVariants(transitions, input, variants) ==
    IF variants = <<>> THEN transitions
    ELSE WithVariants(WithVariant(transitions, input, Head(variants)), input, Tail(variants))

RECURSIVE WithRules(_, _)
WithRules(transitions, rules) ==
    IF rules = <<>> THEN transitions
    ELSE WithRules(WithVariants(transitions, Head(rules).input, Head(rules).variants),
                   Tail(rules))

\* variant[0] in the println! of the second pass aborts on an empty variant
HasEmptyVariant(rules) ==
    \E i \in 1..Len(rules) : \E j \in 1..Len(rules[i].variants) : rules[i].variants[j] = <<>>

TryFrom(gr) ==
    IF gr.grammar_type # "RegularRight"
    THEN [kind |-> "error", error |-> "InavlidGrammarType"]
    ELSE LET closing_non_terminal == ClosingNonTerminal(gr)
             rules == NormalizedRules(gr, closing_non_terminal)
         IN IF closing_non_terminal = 0 \/ HasEmptyVariant(rules) THEN Panicked
            ELSE Nfa(Append(gr.non_terminals, closing_non_terminal),
                     gr.terminals,
                     WithRules(EmptyMap, rules),
                     <<gr.starting_non_terminal>>,
                     <<closing_non_terminal>> \o StartClosings(gr))

---------------------------------------------------------------------------
(* The language of an automaton, for the statements about it: the strings  *)
(* over T that lead from some state of a set to a closing state.           *)

\* the states reached from the set X by the input a
StepSet(M, X, a) ==
    UNION {RangeOf(M.transitions[<<q, a>>]) : q \in {x \in X : <<x, a>> \in DOMAIN M.transitions}}

AcceptsEmpty(M, X) == X \cap RangeOf(M.closing_states) # {}

\* the pairs of state sets that the two automata reach on a common string
RECURSIVE PairClosure(_, _, _, _, _)
PairClosure(M1, M2, T, seen, frontier) ==
    IF frontier = {} THEN seen
    ELSE LET next == {<<StepSet(M1, p[1], a), StepSet(M2, p[2], a)>> : p \in frontier, a \in T}
             new == next \ seen
         IN PairClosure(M1, M2, T, seen \cup new, new)

\* M1 read from the states X1 and M2 read from the states X2 accept the same strings over T
SameLanguageFrom(M1, X1, M2, X2, T) ==
    \A p \in PairClosure(M1, M2, T, {<<X1, X2>>}, {<<X1, X2>>}) :
        AcceptsEmpty(M1, p[1]) <=> AcceptsEmpty(M2, p[2])

\* L(M1) = L(M2), both read from their starting states
SameLanguage(M1, M2) ==
    SameLanguageFrom(M1, RangeOf(M1.starting_states), M2, RangeOf(M2.starting_states),
                     RangeOf(M1.inputs) \cup RangeOf(M2.inputs))

\* the states reachable from H through F, as a set
RECURSIVE ReachSet(_, _)
ReachSet(M, R) ==
    LET next == R \cup UNION {StepSet(M, R, a) : a \in RangeOf(M.inputs)}
    IN IF next = R THEN R ELSE ReachSet(M, next)

Reachable(M) == ReachSet(M, RangeOf(M.starting_states))

---------------------------------------------------------------------------
(* The automata the program is given: Dfa::new and Nfa::new validate       *)
(* nothing, so the values below are a bounded family of well-formed ones   *)
(* (H and Z inside Q, every destination in Q) and the values of the tests. *)

MaxStates == 3

StateNames == <<cA, cB, cC, cD, cE, cF, cG>>

StateLists(max) == {SubSeq(StateNames, 1, n) : n \in 1..max}

\* the sub-vectors of Q, in the order of Q
SubVectors(Q) == {SelectSeq(Q, LAMBDA s : s \in X) : X \in SUBSET RangeOf(Q)}

\* the tables with at most one destination per key
SingleTables(Q, T) ==
    UNION {[K -> {<<q>> : q \in RangeOf(Q)}] : K \in SUBSET (RangeOf(Q) \X RangeOf(T))}

DfasOver(Q, T) ==
    {Dfa(Q, T, F, <<Q[1]>>, Z, EmptyMap, EmptyMap) :
        F \in SingleTables(Q, T), Z \in SubVectors(Q)}

DfaInputs(max) == UNION {DfasOver(Q, <<ca>>) : Q \in StateLists(max)}

\* the automata of max states in a ring: each state goes to the next one of Q and
\* the last one to the first
RingTable(Q) ==
    [k \in {<<Q[i], ca>> : i \in 1..Len(Q)} |-> <<Q[(Position(Q, k[1]) % Len(Q)) + 1]>>]

RingDfas(max) ==
    LET Q == SubSeq(StateNames, 1, max)
    IN {Dfa(Q, <<ca>>, RingTable(Q), <<Q[1]>>, Z, EmptyMap, EmptyMap) : Z \in SubVectors(Q)}

\* the state lists of the Nfa family leave one letter out, so that the fresh
\* names of to_deterministic first fill a gap and then go on after the last state
GapLists(max) ==
    {SubSeq(StateNames, 1, n - 1) \o <<StateNames[n + 1]>> : n \in 1..max}

\* the destination lists of an Nfa: empty, one state, or two states in order
DestLists(Q) ==
    {<<>>} \cup {<<q>> : q \in RangeOf(Q)}
           \cup {<<x[1], x[2]>> : x \in {y \in RangeOf(Q) \X RangeOf(Q) : y[1] < y[2]}}

NfaTables(Q, T) ==
    UNION {[K -> DestLists(Q)] : K \in SUBSET (RangeOf(Q) \X RangeOf(T))}

NfasOver(Q, T) ==
    {Nfa(Q, T, F, <<Q[1]>>, Z) : F \in NfaTables(Q, T), Z \in SubVectors(Q)}

NfaInputs(max) == UNION {NfasOver(Q, <<ca>>) : Q \in GapLists(max)}

\* the table of test_remove_redundant_states
TestRedundantTable ==
    (<<cA, ca>> :> <<cB>>) @@ (<<cA, cb>> :> <<cC>>) @@ (<<cB, cb>> :> <<cD>>) @@
    (<<cC, cb>> :> <<cE>>) @@ (<<cD, ca>> :> <<cC>>) @@ (<<cD, cb>> :> <<cE>>) @@
    (<<cE, ca>> :> <<cB>>) @@ (<<cE, cb>> :> <<cD>>)

TestRedundantDfa ==
    Dfa(<<cA, cB, cC, cD, cE>>, <<ca, cb>>, TestRedundantTable, <<cA>>, <<cD, cE>>,
        EmptyMap, EmptyMap)

\* the automaton of test_remove_unreachable_states
TestUnreachableNfa ==
    Nfa(<<cA, cB, cC, cD, cE, cF, cG>>, <<ca, cb>>,
        TestRedundantTable @@ (<<cF, ca>> :> <<cD>>) @@ (<<cF, cb>> :> <<cG>>) @@
        (<<cG, ca>> :> <<cF>>) @@ (<<cG, cb>> :> <<cE>>),
        <<cA>>, <<cD, cE>>)

---------------------------------------------------------------------------
(* The operations on automata.                                             *)

ToDeterministic ==
    /\ m.kind = "nfa"
    /\ m' \in ToDeterministicResults(m)
    /\ prev' = m
    /\ src' = m
    /\ op' = "to_deterministic"
    /\ ret' = NoValue
    /\ UNCHANGED <<g, part>>

RemoveUnreachableStates ==
    /\ m.kind = "dfa"
    /\ m' = RemoveUnreachableStatesOf(m)
    /\ prev' = m
    /\ op' = "remove_unreachable_states"
    /\ ret' = NoValue
    /\ UNCHANGED <<g, src, part>>

RemoveRedundantStates ==
    /\ m.kind = "dfa"
    /\ \E r \in RedundantResults(m) :
          /\ m' = r.dfa
          /\ part' = r.list
    /\ prev' = m
    /\ op' = "remove_redundant_states"
    /\ ret' = NoValue
    /\ UNCHANGED <<g, src>>

\* if self.has_unreachable_states() { self.remove_unreachable_states(); }
\* self.remove_redundant_states();
Minify ==
    /\ m.kind = "dfa"
    /\ \E r \in RedundantResults(IF HasUnreachableStates(m)
                                 THEN RemoveUnreachableStatesOf(m) ELSE m) :
          /\ m' = r.dfa
          /\ part' = r.list
    /\ prev' = m
    /\ op' = "minify"
    /\ ret' = NoValue
    /\ UNCHANGED <<g, src>>

\* consuming a Dfa right after to_deterministic built it, as test_automata does
ToNonDeterministic ==
    /\ m.kind = "dfa"
    /\ op = "to_deterministic"
    /\ m' = ToNonDeterministicOf(m)
    /\ prev' = m
    /\ op' = "to_non_deterministic"
    /\ ret' = NoValue
    /\ UNCHANGED <<g, src, part>>

NoGrammar == [kind |-> "none"]

---------------------------------------------------------------------------
(* The arguments Grammar::new is given: a bounded family of rule lists     *)
(* over two terminals and two non-terminals, and a few ill-formed ones.    *)

MaxRules == 2

Args(terminals, non_terminals, starting_non_terminal, rules) ==
    [kind |-> "args", terminals |-> terminals, non_terminals |-> non_terminals,
     starting_non_terminal |-> starting_non_terminal, rules |-> rules]

\* the variants of the family, X being the second non-terminal
VariantPool(X) ==
    {<<ca>>, <<EMPTY_SEQUENCE>>, <<ca, X>>, <<ca, cS>>, <<X, ca>>, <<ca, cb>>, <<ca, cb, X>>}

\* rules of one or two variants
RulesOver(heads, variants) ==
    {Rule(h, <<v>>) : h \in heads, v \in variants}
        \cup {Rule(h, <<v, w>>) : h \in heads, v \in variants, w \in variants}

RECURSIVE RuleLists(_, _)
RuleLists(rules, n) ==
    IF n = 0 THEN {<<>>}
    ELSE LET shorter == RuleLists(rules, n - 1)
         IN shorter \cup {Append(l, r) : l \in {x \in shorter : Len(x) = n - 1}, r \in rules}

ArgsOver(terminals, non_terminals, starting_non_terminal, lists) ==
    {Args(terminals, non_terminals, starting_non_terminal, rules) : rules \in lists}

GrammarArgs(max) ==
    \* heads that are one non-terminal
    ArgsOver(<<ca, cb>>, <<cS, cA>>, cS,
             RuleLists(RulesOver({<<cS>>, <<cA>>}, VariantPool(cA)), max))
    \* 'N' is a non-terminal
    \cup ArgsOver(<<ca, cb>>, <<cS, cN>>, cS,
                  RuleLists(RulesOver({<<cS>>, <<cN>>}, VariantPool(cN)), 1))
    \* heads that are empty, a terminal, or two symbols
    \cup ArgsOver(<<ca, cb>>, <<cS, cA>>, cS,
                  RuleLists(RulesOver({<<>>, <<ca>>, <<cS, cA>>}, VariantPool(cA)), 1))
    \* a terminal that is a non-terminal, a start symbol that is none, a foreign symbol
    \cup ArgsOver(<<ca, cS>>, <<cS, cA>>, cS,
                  RuleLists(RulesOver({<<cS>>}, {<<ca>>, <<cC>>}), 1))
    \cup ArgsOver(<<ca, cb>>, <<cS, cA>>, cB,
                  RuleLists(RulesOver({<<cS>>}, {<<ca>>, <<cC>>}), 1))
    \cup ArgsOver(<<ca, cb>>, <<cS, cA>>, cS,
                  RuleLists(RulesOver({<<cS>>, <<cC>>}, {<<ca>>, <<cC>>, <<ca, cPlus, ca>>}), 1))

\* the grammar of test_automata
TestAutomataArgs ==
    Args(<<ca, cb>>, <<cS, cA, cB>>, cS,
         <<Rule(<<cS>>, <<(<<ca, cB>>), (<<ca, cA>>)>>),
           Rule(<<cB>>, <<(<<cb, cB>>), (<<ca>>)>>),
           Rule(<<cA>>, <<(<<ca, cA>>), (<<cb>>)>>)>>)

\* the grammars of test_grammar_types
TestTypesArgs ==
    {Args(<<ca, cb, cc, cd>>, <<cA, cB, cS>>, cS,
          <<Rule(<<cA>>, <<(<<ca, cB>>), (<<EMPTY_SEQUENCE>>)>>)>>),
     Args(<<ca, cb, cc, cd>>, <<cA, cB, cS>>, cS,
          <<Rule(<<cA>>, <<(<<cb, cB, cc>>)>>)>>),
     Args(<<ca, cb, cc, cd>>, <<cA, cB, cC, cS>>, cS,
          <<Rule(<<cC, cB>>, <<(<<cB, cC>>)>>)>>),
     Args(<<ca, cb, cc, cd>>, <<cA, cB, cC, cS>>, cS,
          <<Rule(<<cA, cB>>, <<(<<cb, cB, cA>>)>>),
            Rule(<<cb, cC, cB>>, <<(<<EMPTY_SEQUENCE>>)>>)>>)}

\* the grammar of test_is_grammar_language_exists
TestLanguageExistsArgs ==
    Args(<<c0, c1>>, <<cS, cA, cB>>, cS,
         <<Rule(<<cS>>, <<(<<cA, cB>>)>>),
           Rule(<<cA>>, <<(<<c0, cA>>), (<<c0>>)>>),
           Rule(<<cB>>, <<(<<c1>>)>>)>>)

\* the grammar of test_remove_non_terminals_without_terminals
TestNonEndingArgs ==
    Args(<<ca, cb, cc>>, <<cS, cA, cB, cC>>, cS,
         <<Rule(<<cS>>, <<(<<ca, cb>>), (<<cA, cC>>)>>),
           Rule(<<cA>>, <<(<<cA, cB>>)>>),
           Rule(<<cB>>, <<(<<cb>>)>>),
           Rule(<<cC>>, <<(<<cc, cb>>)>>)>>)

\* the grammar of test_remove_unreachable_symbols
TestUnreachableSymbolsArgs ==
    Args(<<ca, cb, cc>>, <<cS, cB, cC>>, cS,
         <<Rule(<<cS>>, <<(<<ca, cb>>)>>),
           Rule(<<cB>>, <<(<<cb>>)>>),
           Rule(<<cC>>, <<(<<cc, cb>>)>>)>>)

\* arguments with two of the three faults at once
TwoFaultArgs ==
    {Args(<<ca, cS>>, <<cS, cA>>, cB, <<Rule(<<cS>>, <<(<<ca>>)>>)>>),
     Args(<<ca, cS>>, <<cS, cA>>, cB, <<Rule(<<cS>>, <<(<<cC>>)>>)>>),
     Args(<<ca, cb>>, <<cS, cA>>, cB, <<Rule(<<cPlus>>, <<(<<ca>>)>>)>>)}

TestArgs ==
    {TestAutomataArgs, TestLanguageExistsArgs, TestNonEndingArgs,
     TestUnreachableSymbolsArgs} \cup TestTypesArgs \cup TwoFaultArgs

---------------------------------------------------------------------------
(* The operations on grammars.                                             *)

NewGrammar ==
    /\ g.kind = "args"
    /\ g' = GrammarNew(g.terminals, g.non_terminals, g.starting_non_terminal, g.rules)
    /\ prev' = g
    /\ op' = "new"
    /\ ret' = NoValue
    /\ UNCHANGED <<m, src, part>>

RemoveNonEndingNonTerminals ==
    /\ g.kind = "grammar"
    /\ g' = RemoveNonEndingNonTerminalsOf(g)
    /\ prev' = g
    /\ op' = "remove_non_ending_non_terminals"
    /\ ret' = NoValue
    /\ UNCHANGED <<m, src, part>>

RemoveUnreachableSymbols ==
    /\ g.kind = "grammar"
    /\ g' = RemoveUnreachableSymbolsOf(g)
    /\ prev' = g
    /\ op' = "remove_unreachable_symbols"
    /\ ret' = NoValue
    /\ UNCHANGED <<m, src, part>>

\* is_grammar_language_exists(&self) reads the grammar and returns a bool
GrammarLanguageExists ==
    /\ g.kind = "grammar"
    /\ ret' = IsGrammarLanguageExists(g)
    /\ prev' = g
    /\ op' = "is_grammar_language_exists"
    /\ UNCHANGED <<g, m, src, part>>

\* Nfa::try_from(grammar) takes the grammar by value
TryFromGrammar ==
    /\ g.kind = "grammar"
    /\ m' = TryFrom(g)
    /\ g' = NoGrammar
    /\ prev' = g
    /\ op' = "try_from"
    /\ ret' = NoValue
    /\ UNCHANGED <<src, part>>

\* Spec: a Dfa built by Dfa::new, then reduced
Init ==
    /\ m \in DfaInputs(MaxStates) \cup {TestRedundantDfa} \cup RingDfas(MaxStates + 1)
    /\ g = NoGrammar
    /\ prev = NoAutomaton
    /\ src = NoAutomaton
    /\ op = "new"
    /\ part = <<>>
    /\ ret = NoValue

Next ==
    \/ RemoveUnreachableStates
    \/ RemoveRedundantStates
    \/ Minify

Spec == Init /\ [][Next]_vars

\* SpecNfa: an Nfa built by Nfa::new, made deterministic, then reduced or turned back
InitNfa ==
    /\ m \in NfaInputs(MaxStates) \cup {TestUnreachableNfa}
    /\ g = NoGrammar
    /\ prev = NoAutomaton
    /\ src = NoAutomaton
    /\ op = "new"
    /\ part = <<>>
    /\ ret = NoValue

NextNfa ==
    \/ ToDeterministic
    \/ ToNonDeterministic
    \/ RemoveUnreachableStates
    \/ RemoveRedundantStates
    \/ Minify

SpecNfa == InitNfa /\ [][NextNfa]_vars

\* SpecGrammar: a grammar built by Grammar::new, cleaned, turned into an Nfa,
\* made deterministic and turned back
InitGrammar ==
    /\ g \in GrammarArgs(MaxRules) \cup TestArgs
    /\ m = NoAutomaton
    /\ prev = NoAutomaton
    /\ src = NoAutomaton
    /\ op = "args"
    /\ part = <<>>
    /\ ret = NoValue

NextGrammar ==
    \/ NewGrammar
    \/ RemoveNonEndingNonTerminals
    \/ RemoveUnreachableSymbols
    \/ GrammarLanguageExists
    \/ TryFromGrammar
    \/ ToDeterministic
    \/ ToNonDeterministic

SpecGrammar == InitGrammar /\ [][NextGrammar]_vars

---------------------------------------------------------------------------
(* Properties of the reduction of a Dfa.                                   *)

\* H and Z inside Q, every key state and every destination in Q
WellFormed(d) ==
    /\ RangeOf(d.starting_states) \subseteq RangeOf(d.states)
    /\ RangeOf(d.closing_states) \subseteq RangeOf(d.states)
    /\ \A k \in DOMAIN d.transitions :
          /\ k[1] \in RangeOf(d.states)
          /\ RangeOf(d.transitions[k]) \subseteq RangeOf(d.states)

\* C1: whatever Dfa minify is called on, the automaton it leaves accepts exactly
\* the strings over T that the automaton accepted before the call
MinifyPreservesLanguage ==
    (op = "minify" /\ prev.kind = "dfa") => (m.kind = "dfa" /\ SameLanguage(prev, m))

\* C2: after minify on a Dfa with H inside Q and every destination in Q, every
\* state of Q is reachable from H and no two distinct states accept the same strings
MinifyGivesMinimal ==
    (op = "minify" /\ prev.kind = "dfa" /\ WellFormed(prev)) =>
        /\ m.kind = "dfa"
        /\ RangeOf(m.states) \subseteq Reachable(m)
        /\ \A p \in RangeOf(m.states) : \A q \in RangeOf(m.states) :
              p # q => ~SameLanguageFrom(m, {p}, m, {q}, RangeOf(m.inputs))

\* the states remove_unreachable_states has to drop
Removed(d) == RangeOf(d.states) \ Reachable(d)

\* C5: after remove_unreachable_states, Q is the former Q without the states that
\* H does not reach, in the former order; no dropped state is left in Z, and none
\* is left in F as the state of a key or as a destination
UnreachableStatesAreDropped ==
    (op = "remove_unreachable_states" /\ prev.kind = "dfa") =>
        /\ m.kind = "dfa"
        /\ m.states = SelectSeq(prev.states, LAMBDA s : s \in Reachable(prev))
        /\ RangeOf(m.closing_states) \cap Removed(prev) = {}
        /\ \A k \in DOMAIN m.transitions :
              /\ k[1] \notin Removed(prev)
              /\ RangeOf(m.transitions[k]) \cap Removed(prev) = {}

\* a final state with transitions from it and to it has been dropped
UnreachableStatesAreDroppedWitness ==
    /\ op = "remove_unreachable_states"
    /\ prev.kind = "dfa"
    /\ \E u \in Removed(prev) :
          /\ Contains(prev.closing_states, u)
          /\ \E k \in DOMAIN prev.transitions : k[1] = u
          /\ \E k \in DOMAIN prev.transitions : Contains(prev.transitions[k], u)
    /\ Len(m.states) > 1

\* the first letter of A..Z outside used
FirstLetterOutside(used) ==
    CHOOSE c \in Letters \cup {0} :
        IF Letters \subseteq used THEN c = 0
        ELSE c \in Letters \ used /\ \A x \in Letters \ used : c <= x

\* the names given to the blocks of more than one state before block i
EarlierNames(states, list, i) == {states[j] : j \in {x \in 1..(i - 1) : Len(list[x]) > 1}}

\* C10: after remove_redundant_states on a Dfa without unreachable states (H and
\* Z inside Q, every key state and destination in Q, every state reached), Q has
\* one name per block of the final partition: the state of a block of one state,
\* and for a larger block the first letter of A..Z that is neither in the former Q
\* nor the name of an earlier block; the Dfa of the test becomes Q = [A, F, G],
\* F standing for {B, C} and G for {D, E}
BlocksAreNamed ==
    (/\ op = "remove_redundant_states"
     /\ prev.kind = "dfa"
     /\ m.kind = "dfa"
     /\ WellFormed(prev)
     /\ Removed(prev) = {}) =>
        /\ Len(m.states) = Len(part)
        /\ \A i \in 1..Len(part) :
              IF Len(part[i]) = 1 THEN m.states[i] = part[i][1]
              ELSE m.states[i] =
                     FirstLetterOutside(RangeOf(prev.states) \cup EarlierNames(m.states, part, i))
        /\ prev = TestRedundantDfa =>
              /\ m.states = <<cA, cF, cG>>
              /\ part = <<<<cA>>, <<cB, cC>>, <<cD, cE>>>>

\* the Dfa of the test has been reduced to three states
BlocksAreNamedWitness ==
    /\ op = "remove_redundant_states"
    /\ prev = TestRedundantDfa
    /\ m.kind = "dfa"
    /\ Len(m.states) = 3
    /\ \E i \in 1..Len(part) : \E j \in 1..Len(part) :
          i # j /\ Len(part[i]) > 1 /\ Len(part[j]) > 1

---------------------------------------------------------------------------
(* Properties of the Dfa made from an Nfa.                                 *)

\* C3: in the Dfa that to_deterministic returns, and in what
\* remove_unreachable_states, remove_redundant_states and minify make of it,
\* every entry of the transition table has exactly one destination
EveryDestinationIsSingle ==
    (/\ src.kind = "nfa"
     /\ op \in {"to_deterministic", "remove_unreachable_states",
                 "remove_redundant_states", "minify"}) =>
        /\ m.kind = "dfa"
        /\ \A k \in DOMAIN m.transitions : Len(m.transitions[k]) = 1

\* C6: in every Dfa reached from to_deterministic by remove_unreachable_states,
\* remove_redundant_states and minify, the two maps are inverse of each other:
\* the combo of a name is mapped to that name, the name of a combo to that combo
MapsAreInverse ==
    (/\ src.kind = "nfa"
     /\ m.kind = "dfa"
     /\ op \in {"to_deterministic", "remove_unreachable_states",
                 "remove_redundant_states", "minify"}) =>
        /\ \A c \in DOMAIN m.state_to_state_combo_map :
              /\ m.state_to_state_combo_map[c] \in DOMAIN m.state_combo_to_state_map
              /\ m.state_combo_to_state_map[m.state_to_state_combo_map[c]] = c
        /\ \A k \in DOMAIN m.state_combo_to_state_map :
              /\ m.state_combo_to_state_map[k] \in DOMAIN m.state_to_state_combo_map
              /\ m.state_to_state_combo_map[m.state_combo_to_state_map[k]] = k

---------------------------------------------------------------------------
(* Properties of grammars and of the Nfa made from a grammar.              *)

\* C4: the Nfa made from a right-regular grammar accepts the same strings after
\* to_deterministic and to_non_deterministic as before
RoundTripPreservesLanguage ==
    (op = "to_non_deterministic" /\ g = NoGrammar /\ src.kind = "nfa") =>
        (m.kind = "nfa" /\ SameLanguage(src, m))

\* an Nfa with two destinations on one input has gone through both conversions
RoundTripPreservesLanguageWitness ==
    /\ op = "to_non_deterministic"
    /\ g = NoGrammar
    /\ src.kind = "nfa"
    /\ m.kind = "nfa"
    /\ \E k \in DOMAIN src.transitions : Len(src.transitions[k]) > 1
    /\ prev.state_combo_to_state_map # EmptyMap
    /\ \E X \in SUBSET RangeOf(src.states) :
          /\ X \cap RangeOf(src.closing_states) # {}
          /\ X # RangeOf(src.starting_states)
          /\ \E a \in RangeOf(src.inputs) : StepSet(src, RangeOf(src.starting_states), a) = X

\* the final state try_from adds: 'N', or the first letter that is no non-terminal
SynthesizedFinal(non_terminals) ==
    IF cN \notin RangeOf(non_terminals) THEN cN
    ELSE FirstLetterOutside(RangeOf(non_terminals))

IsSorted(s) == \A i \in 1..(Len(s) - 1) : s[i] <= s[i + 1]

\* C7: the Nfa that try_from makes of a right-regular grammar starts in [S]; the
\* final state it adds is no non-terminal and is a closing state; every
\* destination list of its table is sorted
NfaOfGrammarIsShaped ==
    (op = "try_from" /\ prev.grammar_type = "RegularRight") =>
        /\ m.kind = "nfa"
        /\ m.starting_states = <<prev.starting_non_terminal>>
        /\ ~Contains(prev.non_terminals, SynthesizedFinal(prev.non_terminals))
        /\ Contains(m.closing_states, SynthesizedFinal(prev.non_terminals))
        /\ \A k \in DOMAIN m.transitions : IsSorted(m.transitions[k])

\* 'N' is a non-terminal and a list of two destinations was pushed out of order
NfaOfGrammarIsShapedWitness ==
    /\ op = "try_from"
    /\ prev.grammar_type = "RegularRight"
    /\ m.kind = "nfa"
    /\ Contains(prev.non_terminals, cN)
    /\ Contains(m.closing_states, cA)
    /\ \E i \in 1..Len(prev.rules) :
          /\ Len(prev.rules[i].variants) = 2
          /\ prev.rules[i].variants[1] = <<ca, cS>>
          /\ prev.rules[i].variants[2] = <<ca, cN>>
          /\ m.transitions[<<prev.rules[i].input[1], ca>>] = <<cN, cS>>

SymbolsOf(ss) == UNION {RangeOf(ss[i]) : i \in 1..Len(ss)}

\* C8: in a grammar Grammar::new has accepted, and after any sequence of
\* remove_non_ending_non_terminals and remove_unreachable_symbols, no terminal is
\* a non-terminal and every symbol of every head and variant is a terminal, a
\* non-terminal, the empty sequence or an operation
GrammarIsWellFormed ==
    g.kind = "grammar" =>
        /\ RangeOf(g.terminals) \cap RangeOf(g.non_terminals) = {}
        /\ \A i \in 1..Len(g.rules) :
              RangeOf(g.rules[i].input) \cup SymbolsOf(g.rules[i].variants)
                \subseteq RangeOf(g.terminals) \cup RangeOf(g.non_terminals)
                            \cup {EMPTY_SEQUENCE} \cup Operations

\* both cleaning operations have shrunk the alphabets and a rule is left
GrammarIsWellFormedWitness ==
    /\ g.kind = "grammar"
    /\ op = "remove_unreachable_symbols"
    /\ prev.kind = "grammar"
    /\ Len(prev.non_terminals) = 1
    /\ Len(prev.terminals) = 2
    /\ Len(g.terminals) = 1
    /\ \E i \in 1..Len(g.rules) : g.rules[i].variants # <<>>

\* the rule lists with the rules of P in another order
RuleOrders(P) == {[i \in 1..Len(P) |-> P[o[i]]] : o \in Orders(1..Len(P))}

\* C9: the type get_type computes does not depend on the order of the rules
TypeIgnoresRuleOrder ==
    (op = "new" /\ g.kind \in {"grammar", "panic"}) =>
        \A P \in RuleOrders(prev.rules) :
            GetType(prev.terminals, prev.non_terminals, P) =
                (IF g.kind = "panic" THEN "panic" ELSE g.grammar_type)

---------------------------------------------------------------------------
(* Properties of the cleaning of a grammar.                                *)

\* a variant whose symbols are all terminals, the empty sequence or members of P
AllSymbolsIn(gr, P, variant) ==
    RangeOf(variant) \subseteq RangeOf(gr.terminals) \cup {EMPTY_SEQUENCE} \cup P

\* the non-terminals with a rule that has a variant over the terminals, the
\* empty sequence and P
ProductiveOver(gr, P) ==
    {A \in RangeOf(gr.non_terminals) :
        \E i \in 1..Len(gr.rules) :
            /\ gr.rules[i].input = <<A>>
            /\ \E j \in 1..Len(gr.rules[i].variants) :
                  AllSymbolsIn(gr, P, gr.rules[i].variants[j])}

\* the least fixed point, from the empty set
RECURSIVE ProductiveFrom(_, _)
ProductiveFrom(gr, P) ==
    LET Step(more) == IF more = P THEN P ELSE ProductiveFrom(gr, more)
    IN Step(ProductiveOver(gr, P))

\* the productive set P*
Productive(gr) == ProductiveFrom(gr, {})

\* C11: after remove_non_ending_non_terminals on a context-free grammar, the
\* non-terminals are exactly the productive set P* of the grammar it was called
\* on, each once, and the head of every rule left is in P*
OnlyProductiveRemain ==
    (op = "remove_non_ending_non_terminals" /\ prev.grammar_type = "ContextFree") =>
        /\ RangeOf(g.non_terminals) = Productive(prev)
        /\ Cardinality(RangeOf(g.non_terminals)) = Len(g.non_terminals)
        /\ \A i \in 1..Len(g.rules) : RangeOf(g.rules[i].input) \subseteq Productive(prev)

\* the grammar of the test: A is dropped, S, B and C stay
OnlyProductiveRemainWitness ==
    /\ op = "remove_non_ending_non_terminals"
    /\ prev.grammar_type = "ContextFree"
    /\ prev.non_terminals = <<cS, cA, cB, cC>>
    /\ g.non_terminals = <<cS, cB, cC>>
    /\ Len(g.rules) = 3

\* the start symbol and the symbols of the variants of the rules of the
\* non-terminals of R
ReachableOver(gr, R) ==
    R \cup UNION {SymbolsOf(gr.rules[i].variants) :
                    i \in {k \in 1..Len(gr.rules) :
                             /\ Len(gr.rules[k].input) = 1
                             /\ gr.rules[k].input[1] \in R
                             /\ gr.rules[k].input[1] \in
                                   RangeOf(gr.non_terminals) \cup {gr.starting_non_terminal}}}

\* the closure of {S}
RECURSIVE ReachableFrom(_, _)
ReachableFrom(gr, R) ==
    LET Step(more) == IF more = R THEN R ELSE ReachableFrom(gr, more)
    IN Step(ReachableOver(gr, R))

ReachableSymbols(gr) == ReachableFrom(gr, {gr.starting_non_terminal})

SingleHeads(gr) == \A i \in 1..Len(gr.rules) : Len(gr.rules[i].input) = 1

\* C12: when remove_unreachable_symbols returns on a grammar whose heads are
\* single symbols, the non-terminals are exactly S and the non-terminals that
\* the closure of {S} reaches, and the terminals are exactly the terminals that
\* occur in the variants of the rules of the reachable non-terminals
OnlyReachableRemain ==
    (op = "remove_unreachable_symbols" /\ SingleHeads(prev)) =>
        /\ g.kind = "grammar"
        /\ RangeOf(g.non_terminals) =
              ReachableSymbols(prev)
                \cap (RangeOf(prev.non_terminals) \cup {prev.starting_non_terminal})
        /\ RangeOf(g.terminals) = ReachableSymbols(prev) \cap RangeOf(prev.terminals)

\* the grammar of the test: B, C and the terminal c are dropped
OnlyReachableRemainWitness ==
    /\ op = "remove_unreachable_symbols"
    /\ prev.non_terminals = <<cS, cB, cC>>
    /\ prev.terminals = <<ca, cb, cc>>
    /\ g.non_terminals = <<cS>>
    /\ g.terminals = <<ca, cb>>

---------------------------------------------------------------------------
(* Properties of Grammar::new.                                             *)

\* some rule holds a symbol that is no terminal, no non-terminal, not the empty
\* sequence and no operation
HasForeignSymbol(a) ==
    \E i \in 1..Len(a.rules) :
        ~(RangeOf(a.rules[i].input) \cup SymbolsOf(a.rules[i].variants)
            \subseteq RangeOf(a.terminals) \cup RangeOf(a.non_terminals)
                        \cup {EMPTY_SEQUENCE} \cup Operations)

\* C13: Grammar::new answers OverlappingSymbols when a terminal is a non-terminal;
\* otherwise MissingStartingNonTerminalSymbol when S is no non-terminal; otherwise
\* InvalidRule when a rule holds a foreign symbol; it answers Ok in none of these cases
ErrorsAreReported ==
    op = "new" =>
        IF RangeOf(prev.terminals) \cap RangeOf(prev.non_terminals) # {}
        THEN g = [kind |-> "error", error |-> "OverlappingSymbols"]
        ELSE IF prev.starting_non_terminal \notin RangeOf(prev.non_terminals)
        THEN g = [kind |-> "error", error |-> "MissingStartingNonTerminalSymbol"]
        ELSE HasForeignSymbol(prev) => g = [kind |-> "error", error |-> "InvalidRule"]

\* the arguments have the first two faults and the first one is reported
ErrorsAreReportedWitness ==
    /\ op = "new"
    /\ RangeOf(prev.terminals) \cap RangeOf(prev.non_terminals) # {}
    /\ prev.starting_non_terminal \notin RangeOf(prev.non_terminals)
    /\ HasForeignSymbol(prev)
    /\ g.kind = "error"
    /\ g.error = "OverlappingSymbols"

\* some rule has a variant strictly shorter than its head
HasShorterVariant(rules) ==
    \E i \in 1..Len(rules) : \E j \in 1..Len(rules[i].variants) :
        Len(rules[i].variants[j]) < Len(rules[i].input)

---------------------------------------------------------------------------
(* Properties of the subset construction.                                  *)

\* C15: the Dfa that to_deterministic makes of an Nfa with one starting state
\* and no empty destination list accepts exactly the strings the Nfa accepts
DeterministicAcceptsTheSame ==
    (/\ op = "to_deterministic"
     /\ Len(prev.starting_states) = 1
     /\ \A k \in DOMAIN prev.transitions : prev.transitions[k] # <<>>) =>
        /\ m.kind = "dfa"
        /\ SameLanguage(prev, m)

\* step 2 has named a set of states that is no destination list of the Nfa, that
\* composite is closing, and the Nfa rejects the empty string and a string of one symbol
DeterministicAcceptsTheSameWitness ==
    /\ op = "to_deterministic"
    /\ Len(prev.starting_states) = 1
    /\ \A k \in DOMAIN prev.transitions : prev.transitions[k] # <<>>
    /\ m.kind = "dfa"
    /\ \E combo \in DOMAIN m.state_combo_to_state_map :
          /\ \A k \in DOMAIN prev.transitions : prev.transitions[k] # combo
          /\ Contains(m.closing_states, m.state_combo_to_state_map[combo])
    /\ \E X \in SUBSET RangeOf(prev.states) :
          /\ X \cap RangeOf(prev.closing_states) = {}
          /\ \E a \in RangeOf(prev.inputs) :
                StepSet(prev, RangeOf(prev.starting_states), a) = X
    /\ ~AcceptsEmpty(prev, RangeOf(prev.starting_states))

---------------------------------------------------------------------------
(* Properties of is_grammar_language_exists.                               *)

\* C16: on a context-free grammar, is_grammar_language_exists answers true
\* exactly when the start symbol is in the productive set P*
LanguageExistsIffProductive ==
    (op = "is_grammar_language_exists" /\ g.grammar_type = "ContextFree") =>
        (ret <=> g.starting_non_terminal \in Productive(g))

\* the grammar of the test: S is productive through A and B only
LanguageExistsIffProductiveWitness ==
    /\ op = "is_grammar_language_exists"
    /\ g.grammar_type = "ContextFree"
    /\ g.terminals = <<c0, c1>>
    /\ g.rules[1] = Rule(<<cS>>, <<(<<cA, cB>>)>>)
    /\ ret = TRUE

---------------------------------------------------------------------------
(* Properties of the partition and of the rebuilt automaton.               *)

\* C17: in the partition remove_redundant_states ends its loop with, no block
\* holds both a closing state and a state that is not closing; so the name of a
\* block of several states is closing exactly when all the states of the block were
BlocksKeepFinality ==
    (op = "remove_redundant_states" /\ prev.kind = "dfa" /\ WellFormed(prev)
        /\ m.kind = "dfa") =>
        \A i \in 1..Len(part) :
            /\ \A s \in RangeOf(part[i]) : \A t \in RangeOf(part[i]) :
                  Contains(prev.closing_states, s) <=> Contains(prev.closing_states, t)
            /\ Len(part[i]) > 1 =>
                  (Contains(m.closing_states, m.state_combo_to_state_map[part[i]])
                     <=> \A s \in RangeOf(part[i]) : Contains(prev.closing_states, s))

\* C18: after remove_redundant_states or minify on a Dfa that to_deterministic
\* has returned, with H and Z inside Q, every key state and destination in Q
\* and one destination per key, the rebuilt Dfa has H and Z inside its Q and
\* every key state and destination in its Q, and every key of a state of a block
\* is found under the name of that block
RebuiltStaysInside ==
    (/\ op \in {"remove_redundant_states", "minify"}
     /\ prev.kind = "dfa"
     /\ src.kind = "nfa"
     /\ prev \in ToDeterministicResults(src)
     /\ WellFormed(prev)
     /\ \A k \in DOMAIN prev.transitions : Len(prev.transitions[k]) = 1) =>
        LET BlockOf(s) == CHOOSE i \in 1..Len(part) : Contains(part[i], s)
            NameOf(s) == IF Len(part[BlockOf(s)]) > 1
                         THEN m.state_combo_to_state_map[part[BlockOf(s)]] ELSE s
        IN /\ m.kind = "dfa"
           /\ WellFormed(m)
           /\ \A k \in DOMAIN prev.transitions :
                 (\E i \in 1..Len(part) : Contains(part[i], k[1])) =>
                    <<NameOf(k[1]), k[2]>> \in DOMAIN m.transitions

---------------------------------------------------------------------------
(* Properties of the rules the cleaning keeps.                             *)

\* the rules whose head is one symbol of X, in their order
RulesOf(gr, X) ==
    SelectSeq(gr.rules, LAMBDA rule : Len(rule.input) = 1 /\ rule.input[1] \in X)

\* C19: after remove_non_ending_non_terminals on a context-free grammar, the
\* rules left are the rules with a productive head, and each of them has kept
\* exactly the variants whose symbols are all terminals, the empty sequence or
\* productive non-terminals
ProductiveVariantsAreKept ==
    (op = "remove_non_ending_non_terminals" /\ prev.grammar_type = "ContextFree") =>
        LET retained == RulesOf(prev, Productive(prev))
        IN /\ Len(g.rules) = Len(retained)
           /\ \A i \in 1..Len(retained) :
                 g.rules[i].variants =
                    SelectSeq(retained[i].variants,
                              LAMBDA variant : AllSymbolsIn(prev, Productive(prev), variant))

\* C20: after remove_unreachable_symbols on a grammar whose heads are single
\* symbols, the rules left are the rules with a reachable head, each with all
\* the variants it had
ReachableRulesAreKept ==
    (op = "remove_unreachable_symbols" /\ SingleHeads(prev)) =>
        /\ g.kind = "grammar"
        /\ g.rules = RulesOf(prev, ReachableSymbols(prev))

\* C21: in a grammar Grammar::new has returned, and after any sequence of
\* remove_non_ending_non_terminals and remove_unreachable_symbols, the start
\* symbol is one of the non-terminals
StartStaysNonTerminal ==
    g.kind = "grammar" => Contains(g.non_terminals, g.starting_non_terminal)

---------------------------------------------------------------------------
(* Properties of the classification.                                       *)

\* some variant of the rules begins with a non-terminal and does not end with one
HasLeftOnlyVariant(a) ==
    \E i \in 1..Len(a.rules) : \E j \in 1..Len(a.rules[i].variants) :
        LET variant == a.rules[i].variants[j]
        IN /\ Len(variant) > 0
           /\ variant[1] \in RangeOf(a.non_terminals)
           /\ variant[Len(variant)] \notin RangeOf(a.non_terminals)

\* some variant of the rules ends with a non-terminal and does not begin with one
HasRightOnlyVariant(a) ==
    \E i \in 1..Len(a.rules) : \E j \in 1..Len(a.rules[i].variants) :
        LET variant == a.rules[i].variants[j]
        IN /\ Len(variant) > 0
           /\ variant[Len(variant)] \in RangeOf(a.non_terminals)
           /\ variant[1] \notin RangeOf(a.non_terminals)

\* C22: a grammar with no variant shorter than its head, with single heads, with
\* a variant that is left-aligned only and a variant that is right-aligned only
\* is given the type ContextFree by Grammar::new
MixedAlignmentIsContextFree ==
    (/\ op = "new"
     /\ g.kind \in {"grammar", "panic"}
     /\ ~HasShorterVariant(prev.rules)
     /\ SingleHeads(prev)
     /\ HasLeftOnlyVariant(prev)
     /\ HasRightOnlyVariant(prev)) =>
        (g.kind = "grammar" /\ g.grammar_type = "ContextFree")

\* C23: when Grammar::new gives a grammar the type ContextFree or one of the
\* two regular types, the head of every rule is one symbol and a non-terminal
HeadsAreNonTerminals ==
    (/\ op = "new"
     /\ g.kind = "grammar"
     /\ g.grammar_type \in {"ContextFree", "RegularLeft", "RegularRight"}) =>
        \A i \in 1..Len(g.rules) :
            /\ Len(g.rules[i].input) = 1
            /\ Contains(g.non_terminals, g.rules[i].input[1])

---------------------------------------------------------------------------
(* Properties of the automata built from a grammar.                        *)

\* C24: in the Nfa that try_from returns for a right-regular grammar, Q is the
\* non-terminals and the final state it adds, T is the terminals, H and Z are
\* inside Q, and every key has its state in Q and its input in T and every
\* destination is in Q
NfaOfGrammarStaysInside ==
    (op = "try_from" /\ prev.grammar_type = "RegularRight" /\ m.kind = "nfa") =>
        /\ RangeOf(m.states) =
              RangeOf(prev.non_terminals) \cup {SynthesizedFinal(prev.non_terminals)}
        /\ m.inputs = prev.terminals
        /\ WellFormed(m)
        /\ \A k \in DOMAIN m.transitions : k[2] \in RangeOf(m.inputs)

\* C25: in the Dfa that to_deterministic returns, the name of a combo is a
\* closing state exactly when the combo holds a closing state of the Nfa
CompositeClosingFollowsCombo ==
    (op = "to_deterministic" /\ m.kind = "dfa") =>
        \A combo \in DOMAIN m.state_combo_to_state_map :
            Contains(m.closing_states, m.state_combo_to_state_map[combo])
                <=> RangeOf(combo) \cap RangeOf(prev.closing_states) # {}

\* two composites were named, the first one closing through one of its two
\* states, the other one not closing
CompositeClosingFollowsComboWitness ==
    /\ op = "to_deterministic"
    /\ m.kind = "dfa"
    /\ \E x \in DOMAIN m.state_combo_to_state_map :
       \E y \in DOMAIN m.state_combo_to_state_map :
          /\ Contains(m.closing_states, m.state_combo_to_state_map[x])
          /\ ~(RangeOf(x) \subseteq RangeOf(prev.closing_states))
          /\ ~Contains(m.closing_states, m.state_combo_to_state_map[y])

---------------------------------------------------------------------------
(* Termination of the refinement loop.                                     *)

\* one destination per key
SingleDestinations(d) == \A k \in DOMAIN d.transitions : Len(d.transitions[k]) = 1

\* C26: on a Dfa with no unreachable state, H and Z inside Q and one
\* destination in Q per key, the loop of remove_redundant_states comes to a
\* list equal to the one before it: it neither runs for ever nor aborts
RefinementTerminates ==
    (/\ op = "remove_redundant_states"
     /\ prev.kind = "dfa"
     /\ WellFormed(prev)
     /\ SingleDestinations(prev)
     /\ Removed(prev) = {}) =>
        /\ m.kind # "hang"
        /\ m.kind = "panic" => part # <<>>

\* a list in character order that holds no state twice
StrictlySorted(s) == \A i \in 1..(Len(s) - 1) : s[i] < s[i + 1]

\* C27: in a Dfa to_deterministic returns, every key of state_combo_to_state_map
\* and every value of state_to_state_combo_map is sorted without a repeated
\* state, so two different combos never hold the same set of states
CombosAreCanonical ==
    (op = "to_deterministic" /\ m.kind = "dfa") =>
        /\ \A k \in DOMAIN m.state_combo_to_state_map : StrictlySorted(k)
        /\ \A n \in DOMAIN m.state_to_state_combo_map :
               StrictlySorted(m.state_to_state_combo_map[n])
        /\ \A k1, k2 \in DOMAIN m.state_combo_to_state_map :
               RangeOf(k1) = RangeOf(k2) => k1 = k2

---------------------------------------------------------------------------
(* The strings a right-linear grammar derives, for the statement about the *)
(* Nfa of a grammar.  A sentential form is a string of terminals followed  *)
(* by one non-terminal or by nothing: its end is <<B>> or <<>>.            *)

\* the variants of the rules whose head is the non-terminal A
VariantsOf(gr, A) ==
    UNION {RangeOf(gr.rules[i].variants) : i \in {j \in 1..Len(gr.rules) : gr.rules[j].input = <<A>>}}

\* the grammars the statement is about: right-regular, every head one
\* non-terminal, every variant a terminal, the empty sequence on S, or a
\* terminal followed by a non-terminal
IsRightLinear(gr) ==
    /\ gr.kind = "grammar"
    /\ gr.grammar_type = "RegularRight"
    /\ \A i \in 1..Len(gr.rules) :
          /\ Len(gr.rules[i].input) = 1
          /\ gr.rules[i].input[1] \in RangeOf(gr.non_terminals)
          /\ \A v \in RangeOf(gr.rules[i].variants) :
                \/ Len(v) = 1 /\ v[1] \in RangeOf(gr.terminals)
                \/ v = <<EMPTY_SEQUENCE>> /\ gr.rules[i].input[1] = gr.starting_non_terminal
                \/ /\ Len(v) = 2
                   /\ v[1] \in RangeOf(gr.terminals)
                   /\ v[2] \in RangeOf(gr.non_terminals)

\* the ends of the sentential forms that follow the ends X by deriving one more a
DeriveStep(gr, X, a) ==
    {Tail(v) : v \in {w \in UNION {VariantsOf(gr, e[1]) : e \in X \ {<<>>}} : w[1] = a}}

\* one of the forms that end in X is, or becomes by S -> ε, a string of terminals
DerivesString(gr, X) ==
    \/ <<>> \in X
    \/ /\ <<gr.starting_non_terminal>> \in X
       /\ <<EMPTY_SEQUENCE>> \in VariantsOf(gr, gr.starting_non_terminal)

\* the pairs (ends of the forms of G, states of M) reached on a common string
RECURSIVE DerivationPairs(_, _, _, _)
DerivationPairs(gr, M, seen, frontier) ==
    IF frontier = {} THEN seen
    ELSE LET next == {<<DeriveStep(gr, p[1], a), StepSet(M, p[2], a)>> :
                         p \in frontier, a \in RangeOf(gr.terminals)}
             new == next \ seen
         IN DerivationPairs(gr, M, seen \cup new, new)

\* M accepts exactly the strings over the terminals that gr derives from S
AcceptsWhatIsDerived(gr, M) ==
    LET start == <<{<<gr.starting_non_terminal>>}, RangeOf(M.starting_states)>>
    IN \A p \in DerivationPairs(gr, M, {start}, {start}) :
           DerivesString(gr, p[1]) <=> AcceptsEmpty(M, p[2])

\* C28: the Nfa that try_from makes of a right-linear grammar accepts a string
\* over the terminals exactly when the grammar derives it from S
NfaAcceptsWhatGrammarDerives ==
    (op = "try_from" /\ IsRightLinear(prev)) =>
        /\ m.kind = "nfa"
        /\ AcceptsWhatIsDerived(prev, m)

\* C29: Grammar::new always returns: one of the three errors, or a grammar
\* whose grammar_type is one of the five types; it never aborts
GrammarNewIsTotal ==
    op = "new" =>
        \/ /\ g.kind = "error"
           /\ g.error \in {"OverlappingSymbols", "MissingStartingNonTerminalSymbol",
                           "InvalidRule"}
        \/ /\ g.kind = "grammar"
           /\ g.grammar_type \in {"Type0", "ContextDependent", "ContextFree",
                                  "RegularLeft", "RegularRight"}

\* C30: to_deterministic is a function of the Nfa: whatever the order in which
\* step 1 visits the entries of the table, the Dfa (states, closing states,
\* table and the names of the combos) is the same
DeterministicIsOrderFree ==
    (op = "to_deterministic" /\ prev.kind = "nfa") =>
        ToDeterministicResults(prev) = {m}

=============================================================================
